---- MODULE Spec2Model ----
(***************************************************************************)
(* Model of the message Bundle of go-i18n (v2/i18n/bundle.go): the store   *)
(* of message templates keyed by country code and language tag, the        *)
(* per-country list of registered tags, and the matcher built from it.     *)
(*                                                                         *)
(* Country codes are Go strings and language tags are written as their     *)
(* canonical string form (the value of Tag.String()), so that the storage  *)
(* key of bundle.go:154-156 is computed by real string concatenation.      *)
(* A Go map is a function with a finite domain; the nil map and the empty  *)
(* map are both the function with the empty domain (the code makes a nil   *)
(* map before it writes to it, and reads treat the two alike).             *)
(***************************************************************************)
EXTENDS Integers, Sequences, FiniteSets, TLC

\* ------------------------------------------------------------------------
\* Bounds and input universes
\* ------------------------------------------------------------------------

\* The number of mutating calls (AddMessages, MustAddMessages) in one run.
MaxCalls == 2

\* The number of messages one AddMessages call carries (variadic argument).
MaxMsgs == 2

\* Country codes handed to the Bundle. They are plain strings in the code
\* (bundle.go:34, 96; the example reads them from a request header), so the
\* universe holds one that contains "-".
Countries == {"tr", "tr-en-t"}

\* Language tags handed to the Bundle: English, Turkish, English
\* transformed from Turkish (BCP 47 extension T), and Klingon, which has
\* no CLDR plural rule.
Tags == {"en", "tr", "en-t-tr", "tlh"}

\* Default languages given to NewBundle (the example uses these two).
DefaultLanguages == {"en", "tr"}

\* Tags a caller may prefer; "de" is never registered.
PrefTags == {"en", "tr", "de"}

\* The length of a caller's ranked preference list.
MaxPrefs == 2

MessageIDs == {"a", "b"}

Texts == {"x", "y"}

\* type Message: the ID and the mandatory Other text. Two versions of the
\* message "a" and one message "b".
Messages == {m \in [ID : MessageIDs, Other : Texts] : m.ID = "a" \/ m.Other = "x"}

\* The argument lists messages ...*Message of one call.
RECURSIVE SeqsUpTo(_, _)
SeqsUpTo(S, n) ==
    IF n = 0 THEN {<<>>}
    ELSE LET shorter == SeqsUpTo(S, n - 1)
         IN  shorter \cup {Append(s, x) : s \in {t \in shorter : Len(t) = n - 1}, x \in S}

\* The nil *Message. A variadic ...*Message argument may hold it.
NilMessage == [ID |-> "<nil>", Other |-> "<nil>"]

\* The argument lists of AddMessages: lists of messages, and lists with the
\* nil pointer as their first or their second element.
MessageLists ==
    SeqsUpTo(Messages, MaxMsgs)
        \cup {<<NilMessage>>} \cup {<<m, NilMessage>> : m \in Messages}

\* The argument lists of the calls that run next to file loading: no
\* message, one message, or the nil pointer.
ShortLists == {<<>>} \cup {<<m>> : m \in Messages \cup {NilMessage}}

\* Format names, which are also the names of the two decoders: the decoder
\* "toml" decodes TOML text and the decoder "yaml" decodes YAML text.
Formats == {"toml", "yaml"}

\* The bytes of a message file: the syntax they are written in and the
\* messages they spell. Garbage is in no syntax at all.
TomlBytes == [syntax |-> "toml", messages |-> <<[ID |-> "a", Other |-> "x"]>>]
YamlBytes == [syntax |-> "yaml", messages |-> <<[ID |-> "b", Other |-> "x"]>>]
Garbage == [syntax |-> "none", messages |-> <<>>]
Bufs == {TomlBytes, YamlBytes, Garbage}

\* Paths, written as the list of the parts of the file name between its
\* dots: <<"active", "en", "toml">> is active.en.toml.
Paths == {<<"active", "en", "toml">>, <<"tlh", "toml">>,
          <<"active", "tr", "yaml">>, <<"gone", "en", "toml">>}

\* The files os.ReadFile finds; gone.en.toml does not exist.
Disk ==
    [path \in Paths \ {<<"gone", "en", "toml">>} |->
        IF path[Len(path)] = "toml" THEN TomlBytes ELSE YamlBytes]

\* The non-empty ranked preference lists handed to Matcher.Match.
PrefLists == SeqsUpTo(PrefTags, MaxPrefs) \ {<<>>}

\* ------------------------------------------------------------------------
\* State
\* ------------------------------------------------------------------------

VARIABLES
    b,       \* the Bundle: defaultLanguage, pluralRules, messageTemplates,
             \* countryTagPair, matcher
    ctor,    \* the (countryCode, defaultLanguage) given to NewBundle
    called,  \* history: the pairs AddMessages was ever called for
    added,   \* history: pair -> (message ID -> text of the message most
             \* recently added under that pair by a successful AddMessages)
    owner,   \* history: storage key -> the pair whose call made its map
    changed, \* history: the country whose tag list changed most recently
    run,     \* the AddMessages call in progress and the line it has reached
    last,    \* the most recent call and what it returned
    calls    \* number of mutating calls made so far

vars == <<b, ctor, called, added, owner, changed, run, last, calls>>

\* The nil *MessageTemplate.
NilTemplate == [ID |-> "", Other |-> ""]

\* The nil *plural.Rule.
NilRule == "nil"

\* language.Und, the root tag.
Und == "und"

\* artTag, the tag of artificial languages.
artTag == "art"

\* ------------------------------------------------------------------------
\* Language tags (golang.org/x/text/language)
\* ------------------------------------------------------------------------

\* Tag.Parent(): the tag with its extensions, variants, region and script
\* dropped one step; a bare language has the root as parent.
Parent(t) == IF t = "en-t-tr" THEN "en" ELSE Und

\* Tag.Base(): the base language subtag.
Base(t) == IF t = "en-t-tr" THEN "en" ELSE t

\* plural.DefaultRules(): the CLDR table; English and Turkish have a rule,
\* Klingon has none.
DefaultRules == [t \in {"en", "tr"} |-> IF t = "en" THEN "rule-en" ELSE "rule-tr"]

\* plural.Rules.Rule(tag): the rule of the most specific tag that has one
\* (the tag itself, then its parents, then its base language), or nil.
RECURSIVE RuleUp(_, _)
RuleUp(rules, t) ==
    IF t \in DOMAIN rules THEN rules[t]
    ELSE IF Parent(t) = Und THEN NilRule
    ELSE RuleUp(rules, Parent(t))

Rule(rules, tag) ==
    IF RuleUp(rules, tag) # NilRule THEN RuleUp(rules, tag)
    ELSE IF Base(tag) \in DOMAIN rules THEN rules[Base(tag)]
    ELSE NilRule

\* ------------------------------------------------------------------------
\* Bundle operations (bundle.go)
\* ------------------------------------------------------------------------

\* messageTemplateKey: countryCode + "-" + tag.String()
messageTemplateKey(countryCode, tag) == countryCode \o "-" \o tag

\* NewMessageTemplate(m): the compiled template keeps the ID and the text.
NewMessageTemplate(m) == [ID |-> m.ID, Other |-> m.Other]

\* language.NewMatcher(tags): a matcher is determined by the ordered list
\* of supported tags it is built from.
NewMatcher(tags) == tags

\* m[k] = v on a Go map.
MapSet(m, k, v) == [x \in DOMAIN m \cup {k} |-> IF x = k THEN v ELSE m[x]]

\* m[k] on a map of slices: the nil (empty) slice when k is absent.
TagsOf(m, k) == IF k \in DOMAIN m THEN m[k] ELSE <<>>

\* addTag with the country code left out of the comparison of line 125.
addTag_AnyCountry(bb, countryCode, tag) ==
    IF \E cc \in DOMAIN bb.countryTagPair :
          \E i \in 1..Len(bb.countryTagPair[cc]) : bb.countryTagPair[cc][i] = tag
    THEN bb
    ELSE LET tags == Append(TagsOf(bb.countryTagPair, countryCode), tag)
         IN  [bb EXCEPT !.countryTagPair = MapSet(@, countryCode, tags),
                        !.matcher = NewMatcher(tags)]

\* addTag building the matcher from the list as it was before the append.
addTag_StaleMatcher(bb, countryCode, tag) ==
    IF \E cc \in DOMAIN bb.countryTagPair :
          \E i \in 1..Len(bb.countryTagPair[cc]) :
              cc = countryCode /\ bb.countryTagPair[cc][i] = tag
    THEN bb
    ELSE LET tags == Append(TagsOf(bb.countryTagPair, countryCode), tag)
         IN  [bb EXCEPT !.countryTagPair = MapSet(@, countryCode, tags),
                        !.matcher = NewMatcher(TagsOf(bb.countryTagPair, countryCode))]

\* addTag without the search for the tag of lines 123-130.
addTag_NoSearch(bb, countryCode, tag) ==
    LET tags == Append(TagsOf(bb.countryTagPair, countryCode), tag)
    IN  [bb EXCEPT !.countryTagPair = MapSet(@, countryCode, tags),
                   !.matcher = NewMatcher(tags)]

\* Bundle.addTag
addTag(bb, countryCode, tag) ==
    IF \E cc \in DOMAIN bb.countryTagPair :
          \E i \in 1..Len(bb.countryTagPair[cc]) :
              cc = countryCode /\ bb.countryTagPair[cc][i] = tag
    THEN bb
    ELSE LET tags == Append(TagsOf(bb.countryTagPair, countryCode), tag)
         IN  [bb EXCEPT !.countryTagPair = MapSet(@, countryCode, tags),
                        !.matcher = NewMatcher(tags)]

\* NewBundle
NewBundle(countryCode, defaultLanguage) ==
    LET rules == DefaultRules
        b0 == [defaultLanguage  |-> defaultLanguage,
               unmarshalFuncs   |-> <<>>,
               pluralRules      |-> MapSet(rules, artTag, Rule(rules, "en")),
               messageTemplates |-> <<>>,
               countryTagPair   |-> <<>>,
               matcher          |-> <<>>]
    IN  addTag(b0, countryCode, defaultLanguage)

\* The loop of AddMessages (bundle.go:109-111) over messages[i..].
RECURSIVE StoreAll(_, _, _)
StoreAll(templates, messages, i) ==
    IF i > Len(messages) \/ messages[i] = NilMessage THEN templates
    ELSE StoreAll(MapSet(templates, messages[i].ID, NewMessageTemplate(messages[i])),
                  messages, i + 1)

\* The loop of lines 109-111 reads m.ID of a nil m: a nil pointer
\* dereference, which ends the call with a run-time panic.
Faults(messages) == \E i \in 1..Len(messages) : messages[i] = NilMessage

\* AddMessages with the map made and the tag registered before the plural
\* rule is looked up.
AddMessages_RuleCheckLate(bb, countryCode, tag, messages) ==
    LET key == messageTemplateKey(countryCode, tag)
        fresh == key \notin DOMAIN bb.messageTemplates
        b1 == IF fresh
              THEN addTag([bb EXCEPT !.messageTemplates = MapSet(@, key, <<>>)],
                          countryCode, tag)
              ELSE bb
    IN  IF Rule(bb.pluralRules, tag) = NilRule
        THEN [b |-> b1, err |-> TRUE, fault |-> FALSE]
        ELSE [b |-> [b1 EXCEPT !.messageTemplates =
                        MapSet(@, key, StoreAll(b1.messageTemplates[key], messages, 1))],
              err |-> FALSE, fault |-> Faults(messages)]

\* AddMessages without the plural rule lookup of lines 97-100.
AddMessages_NoRuleCheck(bb, countryCode, tag, messages) ==
    LET key == messageTemplateKey(countryCode, tag)
        fresh == key \notin DOMAIN bb.messageTemplates
        b1 == IF fresh
              THEN addTag([bb EXCEPT !.messageTemplates = MapSet(@, key, <<>>)],
                          countryCode, tag)
              ELSE bb
    IN  [b |-> [b1 EXCEPT !.messageTemplates =
                   MapSet(@, key, StoreAll(b1.messageTemplates[key], messages, 1))],
         err |-> FALSE, fault |-> Faults(messages)]

\* AddMessages returning right after it made the map of a new key and
\* registered the tag, before the loop of lines 109-111.
AddMessages_ReturnAfterCreate(bb, countryCode, tag, messages) ==
    IF Rule(bb.pluralRules, tag) = NilRule
    THEN [b |-> bb, err |-> TRUE, fault |-> FALSE]
    ELSE LET key == messageTemplateKey(countryCode, tag)
         IN  IF key \notin DOMAIN bb.messageTemplates
             THEN [b |-> addTag([bb EXCEPT !.messageTemplates = MapSet(@, key, <<>>)],
                                countryCode, tag),
                   err |-> FALSE, fault |-> FALSE]
             ELSE [b |-> [bb EXCEPT !.messageTemplates =
                             MapSet(@, key, StoreAll(bb.messageTemplates[key], messages, 1))],
                   err |-> FALSE, fault |-> Faults(messages)]

\* Bundle.AddMessages: the Bundle after the call, whether it returned an
\* error, and whether it ended in a run-time panic instead of returning.
AddMessages(bb, countryCode, tag, messages) ==
    IF Rule(bb.pluralRules, tag) = NilRule
    THEN [b |-> bb, err |-> TRUE, fault |-> FALSE]
    ELSE LET key == messageTemplateKey(countryCode, tag)
             fresh == key \notin DOMAIN bb.messageTemplates
             b1 == IF fresh
                   THEN addTag([bb EXCEPT !.messageTemplates = MapSet(@, key, <<>>)],
                               countryCode, tag)
                   ELSE bb
             b2 == [b1 EXCEPT !.messageTemplates =
                        MapSet(@, key, StoreAll(b1.messageTemplates[key], messages, 1))]
         IN  [b |-> b2, err |-> FALSE, fault |-> Faults(messages)]

\* Bundle.MustAddMessages: panicked tells that the call ended in panic(err).
MustAddMessages(bb, countryCode, tag, messages) ==
    LET r == AddMessages(bb, countryCode, tag, messages)
    IN  [b |-> r.b, panicked |-> r.err, fault |-> r.fault]

\* Bundle.RegisterUnmarshalFunc
RegisterUnmarshalFunc(bb, format, unmarshalFunc) ==
    [bb EXCEPT !.unmarshalFuncs = MapSet(@, format, unmarshalFunc)]

\* The format and the language of a path: the format is what follows the
\* last ".", the language what lies between the dot before it (or the start
\* of the file name) and the format.
parsePath(path) ==
    IF Len(path) < 2 THEN [lang |-> "", format |-> ""]
    ELSE [lang |-> path[Len(path) - 1], format |-> path[Len(path)]]

\* language.Make(lang): the tag of a well-formed language, else the root.
Make(lang) == IF lang \in Tags THEN lang ELSE Und

\* A decoder applied to bytes: it yields the messages of bytes written in
\* its syntax and fails on any other bytes.
Unmarshal(unmarshalFunc, buf) ==
    IF buf.syntax = unmarshalFunc
    THEN [messages |-> buf.messages, err |-> FALSE]
    ELSE [messages |-> <<>>, err |-> TRUE]

NilFile == [Path |-> <<>>, Tag |-> Und, Format |-> "", Messages |-> <<>>]

\* The package function ParseMessageFileBytes(buf, path, unmarshalFuncs):
\* the MessageFile decoded by the function registered for the format of
\* the path, or an error when none is registered or decoding fails.
ParseMessageFileBytes(buf, path, unmarshalFuncs) ==
    LET p == parsePath(path)
    IN  IF p.format \notin DOMAIN unmarshalFuncs
        THEN [file |-> NilFile, err |-> TRUE]
        ELSE LET d == Unmarshal(unmarshalFuncs[p.format], buf)
             IN  IF d.err THEN [file |-> NilFile, err |-> TRUE]
                 ELSE [file |-> [Path |-> path, Tag |-> Make(p.lang),
                                 Format |-> p.format, Messages |-> d.messages],
                       err |-> FALSE]

\* Bundle.ParseMessageFileBytes storing under the default language of the
\* Bundle instead of the tag of the file.
BundleParseMessageFileBytes_DefaultTag(bb, buf, path, countryCode) ==
    LET f == ParseMessageFileBytes(buf, path, bb.unmarshalFuncs)
    IN  IF f.err THEN [b |-> bb, err |-> TRUE, fault |-> FALSE, file |-> NilFile]
        ELSE LET r == AddMessages(bb, countryCode, bb.defaultLanguage, f.file.Messages)
             IN  [b |-> r.b, err |-> r.err, fault |-> r.fault,
                  file |-> IF r.err \/ r.fault THEN NilFile ELSE f.file]

\* Bundle.ParseMessageFileBytes(buf, path, countryCode)
BundleParseMessageFileBytes(bb, buf, path, countryCode) ==
    LET f == ParseMessageFileBytes(buf, path, bb.unmarshalFuncs)
    IN  IF f.err THEN [b |-> bb, err |-> TRUE, fault |-> FALSE, file |-> NilFile]
        ELSE LET r == AddMessages(bb, countryCode, f.file.Tag, f.file.Messages)
             IN  [b |-> r.b, err |-> r.err, fault |-> r.fault,
                  file |-> IF r.err \/ r.fault THEN NilFile ELSE f.file]

\* Bundle.MustParseMessageFileBytes
MustParseMessageFileBytes(bb, buf, path, countryCode) ==
    LET r == BundleParseMessageFileBytes(bb, buf, path, countryCode)
    IN  [b |-> r.b, panicked |-> r.err, fault |-> r.fault]

\* Bundle.LoadMessageFile(path, countryCode)
LoadMessageFile(bb, path, countryCode) ==
    IF path \notin DOMAIN Disk
    THEN [b |-> bb, err |-> TRUE, fault |-> FALSE, file |-> NilFile]
    ELSE BundleParseMessageFileBytes(bb, Disk[path], path, countryCode)

\* Bundle.MustLoadMessageFile(countryCode, path)
MustLoadMessageFile(bb, countryCode, path) ==
    LET r == LoadMessageFile(bb, path, countryCode)
    IN  [b |-> r.b, panicked |-> r.err, fault |-> r.fault]

\* Matcher.Match(preferences...) of the matcher built by language.NewMatcher
\* (golang.org/x/text/language): the supported tag and its index for the
\* first preference that is a supported tag; failing that, for the first
\* preference whose base language is that of a supported tag (the first
\* such supported tag); failing that, the first supported tag, which the
\* matcher uses as its default, with confidence No. Indexes are Go's, from 0.
ExactHits(matcher, prefs) ==
    {i \in 1..Len(prefs) : \E j \in 1..Len(matcher) : matcher[j] = prefs[i]}

BaseHits(matcher, prefs) ==
    {i \in 1..Len(prefs) : \E j \in 1..Len(matcher) : Base(matcher[j]) = Base(prefs[i])}

Min(S) == CHOOSE x \in S : \A y \in S : x <= y

Match(matcher, prefs) ==
    IF matcher = <<>> THEN [tag |-> Und, index |-> 0, confidence |-> "No"]
    ELSE IF ExactHits(matcher, prefs) # {}
    THEN LET p == prefs[Min(ExactHits(matcher, prefs))]
             j == Min({k \in 1..Len(matcher) : matcher[k] = p})
         IN  [tag |-> matcher[j], index |-> j - 1, confidence |-> "Exact"]
    ELSE IF BaseHits(matcher, prefs) # {}
    THEN LET p == prefs[Min(BaseHits(matcher, prefs))]
             j == Min({k \in 1..Len(matcher) : Base(matcher[k]) = Base(p)})
         IN  [tag |-> matcher[j], index |-> j - 1, confidence |-> "High"]
    ELSE [tag |-> matcher[1], index |-> 0, confidence |-> "No"]

\* Bundle.LanguageTags
LanguageTags(bb, countryCode) == TagsOf(bb.countryTagPair, countryCode)

\* Bundle.getMessageTemplate
getMessageTemplate(bb, tag, id, countryCode) ==
    LET key == messageTemplateKey(countryCode, tag)
    IN  IF key \notin DOMAIN bb.messageTemplates THEN NilTemplate
        ELSE IF id \in DOMAIN bb.messageTemplates[key]
             THEN bb.messageTemplates[key][id]
             ELSE NilTemplate

\* ------------------------------------------------------------------------
\* History
\* ------------------------------------------------------------------------

\* The messages of one successful call, recorded under the pair they were
\* added for; within one call the later message with an ID replaces the
\* earlier.
RECURSIVE Record(_, _, _)
Record(byID, messages, i) ==
    IF i > Len(messages) \/ messages[i] = NilMessage THEN byID
    ELSE Record(MapSet(byID, messages[i].ID, messages[i].Other), messages, i + 1)

Remember(hist, countryCode, tag, messages) ==
    LET pair == <<countryCode, tag>>
        old == IF pair \in DOMAIN hist THEN hist[pair] ELSE <<>>
    IN  MapSet(hist, pair, Record(old, messages, 1))

\* The country whose tag list differs between two Bundles, or the one
\* known before when none does.
Changed(before, after, known) ==
    LET diff == {c \in DOMAIN after.countryTagPair :
                    TagsOf(before.countryTagPair, c) # after.countryTagPair[c]}
    IN  IF diff = {} THEN known ELSE CHOOSE c \in diff : TRUE

NoCall == [op |-> "NewBundle", countryCode |-> "", tag |-> "", id |-> "",
           err |-> FALSE, fault |-> FALSE, panicked |-> FALSE,
           template |-> NilTemplate, tags |-> <<>>]

\* No AddMessages call is in progress.
Idle == [pc |-> "idle", countryCode |-> "", tag |-> "", messages |-> <<>>, i |-> 0,
         err |-> FALSE, fault |-> FALSE]

\* ------------------------------------------------------------------------
\* Actions
\* ------------------------------------------------------------------------

Init ==
    \E countryCode \in Countries, defaultLanguage \in DefaultLanguages :
        /\ b = NewBundle(countryCode, defaultLanguage)
        /\ ctor = <<countryCode, defaultLanguage>>
        /\ called = {}
        /\ added = <<>>
        /\ owner = <<>>
        /\ changed = countryCode
        /\ run = Idle
        /\ last = NoCall
        /\ calls = 0

\* A call of AddMessages(countryCode, tag, messages...).
DoAddMessages(countryCode, tag, messages) ==
    LET r == AddMessages(b, countryCode, tag, messages)
    IN  /\ calls < MaxCalls
        /\ calls' = calls + 1
        /\ b' = r.b
        /\ called' = called \cup {<<countryCode, tag>>}
        /\ added' = IF r.err THEN added ELSE Remember(added, countryCode, tag, messages)
        /\ owner' = LET key == messageTemplateKey(countryCode, tag)
                    IN  IF r.err \/ key \in DOMAIN b.messageTemplates THEN owner
                        ELSE MapSet(owner, key, <<countryCode, tag>>)
        /\ changed' = Changed(b, r.b, changed)
        /\ last' = [NoCall EXCEPT !.op = "AddMessages", !.countryCode = countryCode,
                                  !.tag = tag, !.err = r.err, !.fault = r.fault]
        /\ UNCHANGED <<ctor, run>>

\* getMessageTemplate making the map of a key it does not find.
DoGetMessageTemplate_Lazy(tag, id, countryCode) ==
    LET key == messageTemplateKey(countryCode, tag)
    IN  /\ last' = [NoCall EXCEPT !.op = "getMessageTemplate", !.countryCode = countryCode,
                                  !.tag = tag, !.id = id,
                                  !.template = getMessageTemplate(b, tag, id, countryCode)]
        /\ b' = IF key \in DOMAIN b.messageTemplates THEN b
                ELSE [b EXCEPT !.messageTemplates = MapSet(@, key, <<>>)]
        /\ UNCHANGED <<ctor, called, added, owner, changed, run, calls>>

\* A call of getMessageTemplate(tag, id, countryCode) by a reader.
DoGetMessageTemplate(tag, id, countryCode) ==
    /\ last' = [NoCall EXCEPT !.op = "getMessageTemplate", !.countryCode = countryCode,
                              !.tag = tag, !.id = id,
                              !.template = getMessageTemplate(b, tag, id, countryCode)]
    /\ UNCHANGED <<b, ctor, called, added, owner, changed, run, calls>>

\* A call of LanguageTags(countryCode) by a reader.
DoLanguageTags(countryCode) ==
    /\ last' = [NoCall EXCEPT !.op = "LanguageTags", !.countryCode = countryCode,
                              !.tags = LanguageTags(b, countryCode)]
    /\ UNCHANGED <<b, ctor, called, added, owner, changed, run, calls>>

\* ------------------------------------------------------------------------
\* AddMessages line by line: every write of the call is a step of its own,
\* so that the states between two writes are states of the model.
\* ------------------------------------------------------------------------

\* AddMessages(countryCode, tag, messages...) is entered (line 96).
StepCall(countryCode, tag, messages) ==
    /\ run.pc = "idle"
    /\ calls < MaxCalls
    /\ calls' = calls + 1
    /\ run' = [Idle EXCEPT !.pc = "rule", !.countryCode = countryCode, !.tag = tag,
                           !.messages = messages, !.i = 1]
    /\ called' = called \cup {<<countryCode, tag>>}
    /\ UNCHANGED <<b, ctor, added, owner, changed, last>>

\* Lines 97-100: the plural rule of the tag; without one, return the error.
StepRule ==
    /\ run.pc = "rule"
    /\ run' = IF Rule(b.pluralRules, run.tag) = NilRule
              THEN [run EXCEPT !.pc = "return", !.err = TRUE]
              ELSE [run EXCEPT !.pc = "map"]
    /\ UNCHANGED <<b, ctor, called, added, owner, changed, last, calls>>

\* Lines 101-106: the key; the map of a key that has none is made.
StepMakeMap ==
    LET key == messageTemplateKey(run.countryCode, run.tag)
        fresh == key \notin DOMAIN b.messageTemplates
    IN  /\ run.pc = "map"
        /\ b' = IF fresh THEN [b EXCEPT !.messageTemplates = MapSet(@, key, <<>>)] ELSE b
        /\ owner' = IF fresh THEN MapSet(owner, key, <<run.countryCode, run.tag>>) ELSE owner
        /\ run' = [run EXCEPT !.pc = IF fresh THEN "search" ELSE "store"]
        /\ UNCHANGED <<ctor, called, added, changed, last, calls>>

\* Lines 107, 123-133: addTag looks for the tag in the lists.
StepSearch ==
    /\ run.pc = "search"
    /\ run' = IF \E cc \in DOMAIN b.countryTagPair :
                    \E i \in 1..Len(b.countryTagPair[cc]) :
                        cc = run.countryCode /\ b.countryTagPair[cc][i] = run.tag
              THEN [run EXCEPT !.pc = "store"]
              ELSE [run EXCEPT !.pc = "append"]
    /\ UNCHANGED <<b, ctor, called, added, owner, changed, last, calls>>

\* Line 135: the tag is appended to the list of the country.
StepAppend ==
    /\ run.pc = "append"
    /\ b' = [b EXCEPT !.countryTagPair =
                 MapSet(@, run.countryCode,
                        Append(TagsOf(b.countryTagPair, run.countryCode), run.tag))]
    /\ changed' = run.countryCode
    /\ run' = [run EXCEPT !.pc = "matcher"]
    /\ UNCHANGED <<ctor, called, added, owner, last, calls>>

\* Line 136: the matcher is built from the list of the country.
StepMatcher ==
    /\ run.pc = "matcher"
    /\ b' = [b EXCEPT !.matcher = NewMatcher(b.countryTagPair[run.countryCode])]
    /\ run' = [run EXCEPT !.pc = "store"]
    /\ UNCHANGED <<ctor, called, added, owner, changed, last, calls>>

\* Lines 109-111: one turn of the loop stores one template; reading the ID
\* of a nil message ends the call with a run-time panic; after the last
\* message the call returns nil (line 112).
StepStore ==
    LET key == messageTemplateKey(run.countryCode, run.tag)
        m == run.messages[run.i]
    IN  /\ run.pc = "store"
        /\ IF run.i > Len(run.messages)
           THEN /\ run' = [run EXCEPT !.pc = "return"]
                /\ UNCHANGED <<b, added>>
           ELSE IF m = NilMessage
           THEN /\ run' = [run EXCEPT !.pc = "return", !.fault = TRUE]
                /\ UNCHANGED <<b, added>>
           ELSE /\ b' = [b EXCEPT !.messageTemplates[key] =
                                      MapSet(@, m.ID, NewMessageTemplate(m))]
                /\ added' = Remember(added, run.countryCode, run.tag, <<m>>)
                /\ run' = [run EXCEPT !.i = @ + 1]
        /\ UNCHANGED <<ctor, called, owner, changed, last, calls>>

\* The call is over: it returned an error, returned nil, or panicked.
StepReturn ==
    /\ run.pc = "return"
    /\ last' = [NoCall EXCEPT !.op = "AddMessages", !.countryCode = run.countryCode,
                              !.tag = run.tag, !.err = run.err, !.fault = run.fault]
    /\ run' = Idle
    /\ UNCHANGED <<b, ctor, called, added, owner, changed, calls>>

NextSteps ==
    \/ \E countryCode \in Countries, tag \in Tags, messages \in MessageLists :
           StepCall(countryCode, tag, messages)
    \/ StepRule
    \/ StepMakeMap
    \/ StepSearch
    \/ StepAppend
    \/ StepMatcher
    \/ StepStore
    \/ StepReturn

SpecSteps == Init /\ [][NextSteps]_vars

\* ------------------------------------------------------------------------
\* Message files and the Must variants
\* ------------------------------------------------------------------------

\* What a call that reached AddMessages(countryCode, tag, messages...) and
\* left the Bundle after leaves in the history.
Account(after, err, countryCode, tag, messages) ==
    /\ called' = called \cup {<<countryCode, tag>>}
    /\ added' = IF err THEN added ELSE Remember(added, countryCode, tag, messages)
    /\ owner' = LET key == messageTemplateKey(countryCode, tag)
                IN  IF err \/ key \in DOMAIN b.messageTemplates THEN owner
                    ELSE MapSet(owner, key, <<countryCode, tag>>)
    /\ changed' = Changed(b, after, changed)

\* A call of AddMessages with a short argument list.
DoAddShort(countryCode, tag, messages) ==
    LET r == AddMessages(b, countryCode, tag, messages)
    IN  /\ calls < MaxCalls
        /\ calls' = calls + 1
        /\ b' = r.b
        /\ Account(r.b, r.err, countryCode, tag, messages)
        /\ last' = [NoCall EXCEPT !.op = "AddMessages", !.countryCode = countryCode,
                                  !.tag = tag, !.err = r.err, !.fault = r.fault]
        /\ UNCHANGED <<ctor, run>>

\* A call of MustAddMessages(countryCode, tag, messages...).
DoMustAddMessages(countryCode, tag, messages) ==
    LET r == MustAddMessages(b, countryCode, tag, messages)
    IN  /\ calls < MaxCalls
        /\ calls' = calls + 1
        /\ b' = r.b
        /\ Account(r.b, r.panicked, countryCode, tag, messages)
        /\ last' = [NoCall EXCEPT !.op = "MustAddMessages", !.countryCode = countryCode,
                                  !.tag = tag, !.panicked = r.panicked, !.fault = r.fault]
        /\ UNCHANGED <<ctor, run>>

\* A call of RegisterUnmarshalFunc(format, unmarshalFunc).
DoRegisterUnmarshalFunc(format, unmarshalFunc) ==
    /\ calls < MaxCalls
    /\ calls' = calls + 1
    /\ b' = RegisterUnmarshalFunc(b, format, unmarshalFunc)
    /\ last' = [NoCall EXCEPT !.op = "RegisterUnmarshalFunc"]
    /\ UNCHANGED <<ctor, called, added, owner, changed, run>>

\* What a file call leaves in the history: nothing when the file was not
\* read or not decoded, else what its AddMessages call leaves.
AccountFile(after, err, buf, path, countryCode) ==
    LET f == ParseMessageFileBytes(buf, path, b.unmarshalFuncs)
    IN  IF f.err
        THEN UNCHANGED <<called, added, owner, changed>>
        ELSE Account(after, err, countryCode, f.file.Tag, f.file.Messages)

\* A call of ParseMessageFileBytes(buf, path, countryCode) on the Bundle.
DoParseMessageFileBytes(buf, path, countryCode) ==
    LET r == BundleParseMessageFileBytes(b, buf, path, countryCode)
    IN  /\ calls < MaxCalls
        /\ calls' = calls + 1
        /\ b' = r.b
        /\ AccountFile(r.b, r.err, buf, path, countryCode)
        /\ last' = [NoCall EXCEPT !.op = "ParseMessageFileBytes",
                                  !.countryCode = countryCode, !.tag = r.file.Tag,
                                  !.err = r.err, !.fault = r.fault]
        /\ UNCHANGED <<ctor, run>>

\* A call of MustParseMessageFileBytes(buf, path, countryCode).
DoMustParseMessageFileBytes(buf, path, countryCode) ==
    LET r == MustParseMessageFileBytes(b, buf, path, countryCode)
    IN  /\ calls < MaxCalls
        /\ calls' = calls + 1
        /\ b' = r.b
        /\ AccountFile(r.b, r.panicked, buf, path, countryCode)
        /\ last' = [NoCall EXCEPT !.op = "MustParseMessageFileBytes",
                                  !.countryCode = countryCode, !.tag = Make(parsePath(path).lang),
                                  !.panicked = r.panicked, !.fault = r.fault]
        /\ UNCHANGED <<ctor, run>>

\* A call of LoadMessageFile(path, countryCode).
DoLoadMessageFile(path, countryCode) ==
    LET r == LoadMessageFile(b, path, countryCode)
    IN  /\ calls < MaxCalls
        /\ calls' = calls + 1
        /\ b' = r.b
        /\ IF path \in DOMAIN Disk
           THEN AccountFile(r.b, r.err, Disk[path], path, countryCode)
           ELSE UNCHANGED <<called, added, owner, changed>>
        /\ last' = [NoCall EXCEPT !.op = "LoadMessageFile",
                                  !.countryCode = countryCode, !.tag = r.file.Tag,
                                  !.err = r.err, !.fault = r.fault]
        /\ UNCHANGED <<ctor, run>>

\* A call of MustLoadMessageFile(countryCode, path).
DoMustLoadMessageFile(countryCode, path) ==
    LET r == MustLoadMessageFile(b, countryCode, path)
    IN  /\ calls < MaxCalls
        /\ calls' = calls + 1
        /\ b' = r.b
        /\ IF path \in DOMAIN Disk
           THEN AccountFile(r.b, r.panicked, Disk[path], path, countryCode)
           ELSE UNCHANGED <<called, added, owner, changed>>
        /\ last' = [NoCall EXCEPT !.op = "MustLoadMessageFile",
                                  !.countryCode = countryCode, !.tag = Make(parsePath(path).lang),
                                  !.panicked = r.panicked, !.fault = r.fault]
        /\ UNCHANGED <<ctor, run>>

\* Population from files and through the Must variants.
NextFile ==
    \/ \E format \in Formats, unmarshalFunc \in Formats :
           DoRegisterUnmarshalFunc(format, unmarshalFunc)
    \/ \E countryCode \in Countries, tag \in Tags, messages \in ShortLists :
           DoAddShort(countryCode, tag, messages)
    \/ \E countryCode \in Countries, tag \in Tags, messages \in ShortLists :
           DoMustAddMessages(countryCode, tag, messages)
    \/ \E buf \in Bufs, path \in Paths, countryCode \in Countries :
           DoParseMessageFileBytes(buf, path, countryCode)
    \/ \E buf \in Bufs, path \in Paths, countryCode \in Countries :
           DoMustParseMessageFileBytes(buf, path, countryCode)
    \/ \E path \in Paths, countryCode \in Countries :
           DoLoadMessageFile(path, countryCode)
    \/ \E path \in Paths, countryCode \in Countries :
           DoMustLoadMessageFile(countryCode, path)

SpecFile == Init /\ [][NextFile]_vars

\* Population: the mutating calls.
Next ==
    \E countryCode \in Countries, tag \in Tags, messages \in MessageLists :
        DoAddMessages(countryCode, tag, messages)

Spec == Init /\ [][Next]_vars

\* Population, one message a call, together with readers that may run
\* at any time.
NextRead ==
    \/ \E countryCode \in Countries, tag \in Tags, m \in Messages :
           DoAddMessages(countryCode, tag, <<m>>)
    \/ \E countryCode \in Countries, tag \in Tags, id \in MessageIDs :
           DoGetMessageTemplate(tag, id, countryCode)
    \/ \E countryCode \in Countries : DoLanguageTags(countryCode)

SpecRead == Init /\ [][NextRead]_vars

\* ------------------------------------------------------------------------
\* Properties
\* ------------------------------------------------------------------------

\* tag is in LanguageTags(countryCode).
Registered(countryCode, tag) ==
    \E i \in 1..Len(LanguageTags(b, countryCode)) : LanguageTags(b, countryCode)[i] = tag

\* At least one message has been added for the pair.
HasMessage(countryCode, tag) ==
    /\ <<countryCode, tag>> \in DOMAIN added
    /\ DOMAIN added[<<countryCode, tag>>] # {}

\* The pair's successful AddMessages call was the first to use its key.
OwnsKey(countryCode, tag) ==
    /\ messageTemplateKey(countryCode, tag) \in DOMAIN owner
    /\ owner[messageTemplateKey(countryCode, tag)] = <<countryCode, tag>>

C2_MatcherPerCountry ==
    \A countryCode \in DOMAIN b.countryTagPair :
        b.matcher = NewMatcher(b.countryTagPair[countryCode])

\* C3: an AddMessages call for a tag without a plural rule returns an error
\* and leaves the whole Bundle (registered tags, templates, matcher) as it
\* was.
C3_NoPartialWrite ==
    [][(calls' = calls + 1 /\ Rule(b.pluralRules, last'.tag) = NilRule)
          => (last'.err /\ b' = b)]_vars

\* A populated Bundle on which a call has just failed.
C3_Witness ==
    /\ last.op = "AddMessages"
    /\ last.err
    /\ Rule(b.pluralRules, last.tag) = NilRule
    /\ DOMAIN added # {}

\* C4 as stated: for a pair no AddMessages call was ever made for, the
\* lookup returns nil for every message ID.
C4_NeverAddedIsAbsent ==
    \A countryCode \in Countries, tag \in Tags, id \in MessageIDs :
        <<countryCode, tag>> \notin called
            => getMessageTemplate(b, tag, id, countryCode) = NilTemplate

\* C5 as stated: the lookup for (countryCode, tag, id) returns the template
\* of the message most recently added with that ID under that pair.
C5_LastWriteWins ==
    \A p \in DOMAIN added :
        \A id \in DOMAIN added[p] :
            getMessageTemplate(b, p[2], id, p[1])
                = NewMessageTemplate([ID |-> id, Other |-> added[p][id]])

\* C6: from any reachable state, AddMessages(countryCode, tag, m) called
\* twice in a row leaves the same Bundle (templates, registered tags,
\* matcher) and the same error result as called once.
C6_Idempotent ==
    \A countryCode \in Countries, tag \in Tags, m \in Messages :
        LET once == AddMessages(b, countryCode, tag, <<m>>)
            twice == AddMessages(once.b, countryCode, tag, <<m>>)
        IN  twice = once

\* The Bundle is the one two successive calls with the same message for a
\* new pair produce.
C6_Witness ==
    /\ calls = 2
    /\ \E countryCode \in Countries, tag \in Tags, m \in Messages :
           LET b0 == NewBundle(ctor[1], ctor[2])
               once == AddMessages(b0, countryCode, tag, <<m>>)
               twice == AddMessages(once.b, countryCode, tag, <<m>>)
           IN  /\ <<countryCode, tag>> # ctor
               /\ called = {<<countryCode, tag>>}
               /\ ~last.err
               /\ ~last.fault
               /\ b = twice.b
               /\ b # b0
               /\ getMessageTemplate(b, tag, m.ID, countryCode) = NewMessageTemplate(m)

\* C7: every tag a successful AddMessages call was made for, and every tag
\* the Store holds a template map for, has a plural rule; a call for a tag
\* without one fails and stores nothing.
C7_PluralRule ==
    /\ \A p \in DOMAIN added : Rule(b.pluralRules, p[2]) # NilRule
    /\ \A p \in called :
           Rule(b.pluralRules, p[2]) = NilRule
               => /\ p \notin DOMAIN added
                  /\ messageTemplateKey(p[1], p[2]) \notin DOMAIN b.messageTemplates
    /\ \A key \in DOMAIN b.messageTemplates :
           \E countryCode \in Countries, tag \in Tags :
               /\ key = messageTemplateKey(countryCode, tag)
               /\ <<countryCode, tag>> \in DOMAIN added
               /\ Rule(b.pluralRules, tag) # NilRule

\* A tag whose rule is that of its parent language holds templates, and a
\* call for a tag without a rule has been made.
C7_Witness ==
    /\ \E p \in DOMAIN added :
           /\ p[2] \notin DOMAIN b.pluralRules
           /\ DOMAIN b.messageTemplates[messageTemplateKey(p[1], p[2])] # {}
    /\ \E p \in called : Rule(b.pluralRules, p[2]) = NilRule

\* C8 as stated: when the Bundle is the one on which T1 was registered
\* before T2 for a country, every preference list gets the same match
\* result as on the Bundle on which T2 was registered before T1.
C8_OrderIndependent ==
    \A countryCode \in Countries, t1 \in Tags, t2 \in Tags :
        LET b0 == NewBundle(ctor[1], ctor[2])
            b12 == AddMessages(AddMessages(b0, countryCode, t1, <<>>).b,
                               countryCode, t2, <<>>).b
            b21 == AddMessages(AddMessages(b0, countryCode, t2, <<>>).b,
                               countryCode, t1, <<>>).b
        IN  (/\ t1 # t2
             /\ Rule(b.pluralRules, t1) # NilRule
             /\ Rule(b.pluralRules, t2) # NilRule
             /\ b.countryTagPair = b12.countryTagPair
             /\ b.matcher = b12.matcher)
                => \A prefs \in PrefLists :
                       Match(b12.matcher, prefs).tag = Match(b21.matcher, prefs).tag

\* No registered tag of the list is a match for the preference list.
NoneMatches(tags, prefs) ==
    ExactHits(tags, prefs) = {} /\ BaseHits(tags, prefs) = {}

\* The result the caller is to see when matching fails.
NoMatchError == "NoMatchError"

\* C9 as stated: when no registered tag of a country matches the
\* preference list, the result is defaultLanguage if it is registered for
\* that country and a no-match error otherwise; and defaultLanguage is
\* registered only for countries where it was given to NewBundle or to
\* AddMessages.
C9_FallbackIsDefault ==
    /\ \A countryCode \in DOMAIN b.countryTagPair, prefs \in PrefLists :
           NoneMatches(LanguageTags(b, countryCode), prefs)
               => Match(b.matcher, prefs).tag
                      = IF Registered(countryCode, b.defaultLanguage)
                        THEN b.defaultLanguage
                        ELSE NoMatchError
    /\ \A countryCode \in Countries :
           Registered(countryCode, b.defaultLanguage)
               => (countryCode = ctor[1] \/ <<countryCode, b.defaultLanguage>> \in called)

\* C10: a step of getMessageTemplate or LanguageTags changes nothing of the
\* Bundle, and what it returns is the value of the lookup on the Bundle as
\* population left it, whatever reads ran before it.
C10_ReadsChangeNothing ==
    [][last'.op \in {"getMessageTemplate", "LanguageTags"}
          => /\ b' = b
             /\ last'.op = "getMessageTemplate"
                    => last'.template
                           = getMessageTemplate(b, last'.tag, last'.id, last'.countryCode)
             /\ last'.op = "LanguageTags"
                    => last'.tags = LanguageTags(b, last'.countryCode)]_vars

\* A reader has found a template on a populated Bundle.
C10_Witness ==
    /\ last.op = "getMessageTemplate"
    /\ last.template # NilTemplate
    /\ calls = 2

\* C11: a step that changes the tag list of a country rebuilds the matcher
\* from the new list of that country in the same step, a step that changes
\* no tag list leaves the matcher alone, and in every state the matcher is
\* the one built from the current list of the country whose list changed
\* most recently.
C11_MatcherNeverStale ==
    /\ [](b.matcher = NewMatcher(LanguageTags(b, changed)))
    /\ [][/\ \A countryCode \in Countries :
                (LanguageTags(b', countryCode) # LanguageTags(b, countryCode)
                    => b'.matcher = NewMatcher(LanguageTags(b', countryCode)))
           /\ (b'.countryTagPair = b.countryTagPair => b'.matcher = b.matcher)]_vars

\* The tag list of a second country has grown to two tags, and the matcher
\* is built from it and not from the list of the NewBundle country.
C11_Witness ==
    /\ changed # ctor[1]
    /\ Len(LanguageTags(b, changed)) = 2
    /\ b.matcher = NewMatcher(LanguageTags(b, changed))
    /\ b.matcher # NewMatcher(LanguageTags(b, ctor[1]))

\* s is a prefix of t.
IsPrefix(s, t) == Len(s) <= Len(t) /\ SubSeq(t, 1, Len(s)) = s

\* No tag appears twice in the list.
NoDuplicates(tags) ==
    \A i \in 1..Len(tags), j \in 1..Len(tags) : tags[i] = tags[j] => i = j

\* C12: LanguageTags(countryCode) holds no tag twice and keeps the order of
\* first registration (a step only appends tags that are not yet in the
\* list), and an AddMessages call for a pair that is already registered
\* leaves every tag list and the matcher unchanged.
C12_TagListOrder ==
    /\ [](\A countryCode \in Countries : NoDuplicates(LanguageTags(b, countryCode)))
    /\ [][/\ \A countryCode \in Countries :
                IsPrefix(LanguageTags(b, countryCode), LanguageTags(b', countryCode))
           /\ (calls' = calls + 1 /\ Registered(last'.countryCode, last'.tag))
                  => (b'.countryTagPair = b.countryTagPair /\ b'.matcher = b.matcher)]_vars

\* A successful call has just been made for the pair NewBundle registered,
\* after another tag was registered for the same country.
C12_Witness ==
    /\ last.op = "AddMessages"
    /\ ~last.err
    /\ ~last.fault
    /\ <<last.countryCode, last.tag>> = ctor
    /\ Len(LanguageTags(b, ctor[1])) = 2
    /\ LanguageTags(b, ctor[1])[1] = ctor[2]

\* C13 as stated: a successful AddMessages(c, t, ...) leaves the lookup
\* result of every message ID under every other pair unchanged.
C13_PairsIsolated ==
    [][(calls' = calls + 1 /\ ~last'.err)
          => \A countryCode \in Countries, tag \in Tags, id \in MessageIDs :
                 <<countryCode, tag>> # <<last'.countryCode, last'.tag>>
                     => getMessageTemplate(b', tag, id, countryCode)
                            = getMessageTemplate(b, tag, id, countryCode)]_vars

\* Some template is stored for the pair: a lookup under it finds one.
HasTemplate(countryCode, tag) ==
    \E id \in MessageIDs : getMessageTemplate(b, tag, id, countryCode) # NilTemplate

\* C14 as stated: at every step, the steps inside one AddMessages call
\* included, a pair with a stored template is in the registered tags of
\* its country, and the tag is registered and the matcher rebuilt before
\* the call writes its first template.
C14_RegisteredBeforeStored ==
    /\ [](\A countryCode \in Countries, tag \in Tags :
             HasTemplate(countryCode, tag) => Registered(countryCode, tag))
    /\ [][b'.messageTemplates # b.messageTemplates /\ run.pc = "store"
             => /\ Registered(run.countryCode, run.tag)
                /\ b.matcher = NewMatcher(LanguageTags(b, changed))]_vars

\* Every Must variant panics with the error exactly when its core operation
\* returns one, and leaves the Bundle its core operation leaves.
MustMatchesCore ==
    /\ \A countryCode \in Countries, tag \in Tags, messages \in ShortLists :
           LET r == AddMessages(b, countryCode, tag, messages)
               m == MustAddMessages(b, countryCode, tag, messages)
           IN  (m.panicked <=> r.err) /\ m.b = r.b
    /\ \A buf \in Bufs, path \in Paths, countryCode \in Countries :
           LET r == BundleParseMessageFileBytes(b, buf, path, countryCode)
               m == MustParseMessageFileBytes(b, buf, path, countryCode)
           IN  (m.panicked <=> r.err) /\ m.b = r.b
    /\ \A path \in Paths, countryCode \in Countries :
           LET r == LoadMessageFile(b, path, countryCode)
               m == MustLoadMessageFile(b, countryCode, path)
           IN  (m.panicked <=> r.err) /\ m.b = r.b

CoreOps == {"AddMessages", "ParseMessageFileBytes", "LoadMessageFile"}

\* C15 as stated: each Must variant panics exactly when the error-returning
\* operation, called with the same arguments, returns an error, and leaves
\* the same Bundle otherwise; and no call of an error-returning operation
\* ends in a run-time panic.
C15_MustAsCoreNoFault ==
    /\ []MustMatchesCore
    /\ [][last'.op \in CoreOps => ~last'.fault]_vars

\* Decoding buf as the file at path fails: no function is registered for
\* the format of the path, or the registered one does not decode buf.
DecodeFails(buf, path) ==
    \/ parsePath(path).format \notin DOMAIN b.unmarshalFuncs
    \/ b.unmarshalFuncs[parsePath(path).format] # buf.syntax

\* AddMessages fails for the file at path: its tag has no plural rule.
AddFails(path) == Rule(b.pluralRules, Make(parsePath(path).lang)) = NilRule

\* C16: Bundle.ParseMessageFileBytes returns an error and leaves templates,
\* registered tags and matcher unchanged whenever decoding fails (no
\* function registered for the format included) or AddMessages fails;
\* when both succeed it returns no error and the messages of the file are
\* stored under the given countryCode and the tag of the file, the maps of
\* all other keys staying as they were.
C16_ParseAllOrNothing ==
    /\ [](\A buf \in Bufs, path \in Paths, countryCode \in Countries :
             LET r == BundleParseMessageFileBytes(b, buf, path, countryCode)
                 tag == Make(parsePath(path).lang)
                 key == messageTemplateKey(countryCode, tag)
             IN  IF DecodeFails(buf, path) \/ AddFails(path)
                 THEN /\ r.err
                      /\ r.b.messageTemplates = b.messageTemplates
                      /\ r.b.countryTagPair = b.countryTagPair
                      /\ r.b.matcher = b.matcher
                 ELSE /\ ~r.err
                      /\ r.file.Tag = tag
                      /\ \A i \in 1..Len(buf.messages) :
                             (\A j \in (i + 1)..Len(buf.messages) :
                                  buf.messages[j].ID # buf.messages[i].ID)
                                 => getMessageTemplate(r.b, tag, buf.messages[i].ID, countryCode)
                                        = NewMessageTemplate(buf.messages[i])
                      /\ \A k \in DOMAIN r.b.messageTemplates \ {key} :
                             /\ k \in DOMAIN b.messageTemplates
                             /\ r.b.messageTemplates[k] = b.messageTemplates[k])
    /\ [][last'.op = "ParseMessageFileBytes"
             => IF last'.err
                THEN /\ b'.messageTemplates = b.messageTemplates
                     /\ b'.countryTagPair = b.countryTagPair
                     /\ b'.matcher = b.matcher
                ELSE \E id \in MessageIDs :
                         getMessageTemplate(b', last'.tag, id, last'.countryCode)
                             # NilTemplate]_vars

\* A file was decoded by a registered function and its message is stored
\* under the country of the call, a country other than the one of NewBundle,
\* and the tag of the file.
C16_Witness ==
    /\ last.op = "ParseMessageFileBytes"
    /\ ~last.err
    /\ ~last.fault
    /\ last.countryCode # ctor[1]
    /\ last.tag = "tr"
    /\ getMessageTemplate(b, "tr", "b", last.countryCode) = [ID |-> "b", Other |-> "x"]
    /\ Registered(last.countryCode, "tr")

====
